---- MODULE Spec2Model ----
(***************************************************************************)
(* favicon.py: resolve a site's favicon URI, fetch / resize / save it, and *)
(* the DokuWiki interwiki batch loader.  Strings are TLA+ strings; the     *)
(* web and the image decoder are the environment, whose answers the        *)
(* actions draw with \E.                                                   *)
(***************************************************************************)
EXTENDS Integers, Sequences, FiniteSets, TLC

VARIABLES pc, args, conf, lineno, processed, fs, requests, log, out,
          page, head, favicon_uri, icon

vars == <<pc, args, conf, lineno, processed, fs, requests, log, out,
          page, head, favicon_uri, icon>>

(***************************************************************************)
(* Python string primitives                                                *)
(***************************************************************************)
\* None, and a returned value v as Some(v)
None == <<>>

Some(v) == <<v>>

\* an expression is evaluated once, when it is bound to a name: F applied
\* to the value of e, to the values of a and b
Let(e, F(_)) == CHOOSE r \in {F(x) : x \in {e}} : TRUE

Let2(a, b, F(_, _)) == CHOOSE r \in {F(x, y) : x \in {a}, y \in {b}} : TRUE

Char(s, i) == SubSeq(s, i, i)

From(s, i) == SubSeq(s, i, Len(s))

startswith(s, p) == Len(s) >= Len(p) /\ SubSeq(s, 1, Len(p)) = p

\* str.find for a set of one-character strings: first index holding one of
\* them at or after position from, Len(s) + 1 when there is none
FindAny(str, cs, from) ==
  Let(str, LAMBDA s :
    Let({i \in from..Len(s) : Char(s, i) \in cs}, LAMBDA hits :
      IF hits = {} THEN Len(s) + 1
      ELSE CHOOSE i \in hits : \A j \in hits : i <= j))

\* str.rfind: last index holding c, 0 when there is none
rfind(str, c) ==
  Let(str, LAMBDA s :
    Let({i \in 1..Len(s) : Char(s, i) = c}, LAMBDA hits :
      IF hits = {} THEN 0
      ELSE CHOOSE i \in hits : \A j \in hits : j <= i))

CharSet(str) == Let(str, LAMBDA s : {Char(s, i) : i \in 1..Len(s)})

UpperCase == "ABCDEFGHIJKLMNOPQRSTUVWXYZ"
LowerCase == "abcdefghijklmnopqrstuvwxyz"
Digits == "0123456789"

Letters == CharSet(UpperCase) \cup CharSet(LowerCase)
UpperChars == CharSet(UpperCase)

LowerChar(c) ==
  IF c \in UpperChars
  THEN Char(LowerCase, CHOOSE i \in 1..Len(UpperCase) : Char(UpperCase, i) = c)
  ELSE c

\* s with f applied to each of its characters from position i on
RECURSIVE MapFrom(_, _, _)
MapFrom(f(_), s, i) ==
  IF i > Len(s) THEN "" ELSE f(Char(s, i)) \o MapFrom(f, s, i + 1)

\* str.lower()
lower(str) == Let(str, LAMBDA s : MapFrom(LowerChar, s, 1))

\* first index at or after from whose character is outside cs, Len(s) + 1
\* when there is none
FindNot(str, cs, from) ==
  Let(str, LAMBDA s :
    Let({i \in from..Len(s) : Char(s, i) \notin cs}, LAMBDA hits :
      IF hits = {} THEN Len(s) + 1
      ELSE CHOOSE i \in hits : \A j \in hits : i <= j))

\* last index whose character is outside cs, 0 when there is none
RFindNot(str, cs) ==
  Let(str, LAMBDA s :
    Let({i \in 1..Len(s) : Char(s, i) \notin cs}, LAMBDA hits :
      IF hits = {} THEN 0
      ELSE CHOOSE i \in hits : \A j \in hits : j <= i))

\* str.rstrip('/')
rstrip_slash(str) == Let(str, LAMBDA s : SubSeq(s, 1, RFindNot(s, {"/"})))

Whitespace == {" ", "\t", "\n", "\r"}

\* str.strip()
strip(str) ==
  Let(str, LAMBDA s : SubSeq(s, FindNot(s, Whitespace, 1), RFindNot(s, Whitespace)))

(***************************************************************************)
(* urllib.parse.urlparse: the scheme, netloc and path the code reads       *)
(***************************************************************************)
scheme_chars == Letters \cup CharSet(Digits) \cup {"+", "-", "."}

\* the path is what is left up to the first '?' or '#'
split_path(scheme, netloc, rest) ==
  [scheme |-> scheme, netloc |-> netloc,
   path |-> SubSeq(rest, 1, FindAny(rest, {"?", "#"}, 1) - 1)]

\* after '//' the netloc runs up to the first of '/', '?', '#'
netloc_until(scheme, rest, j) ==
  Let2(SubSeq(rest, 3, j - 1), From(rest, j),
       LAMBDA netloc, after : split_path(scheme, netloc, after))

split_netloc(scheme, rest) ==
  IF startswith(rest, "//")
  THEN Let(FindAny(rest, {"/", "?", "#"}, 3), LAMBDA j : netloc_until(scheme, rest, j))
  ELSE split_path(scheme, "", rest)

\* what stands before the first ':' is the scheme when it starts with a
\* letter and is made of scheme characters; it is lowercased
scheme_until(url, i) ==
  IF /\ i > 1 /\ i <= Len(url)
     /\ Char(url, 1) \in Letters
     /\ \A k \in 1..(i - 1) : Char(url, k) \in scheme_chars
  THEN Let2(lower(SubSeq(url, 1, i - 1)), From(url, i + 1),
            LAMBDA scheme, rest : split_netloc(scheme, rest))
  ELSE split_netloc("", url)

urlparse(uri) ==
  Let(uri, LAMBDA url :
    Let(FindAny(url, {":"}, 1), LAMBDA i : scheme_until(url, i)))

(***************************************************************************)
(* os.path                                                                 *)
(***************************************************************************)
\* os.path.split: (head, tail) around the last slash, head without its
\* trailing slashes unless it is made of slashes only
os_path_split(p) ==
  LET at(i) ==
        LET parts(h) ==
              [head |-> IF h # "" /\ CharSet(h) # {"/"} THEN rstrip_slash(h) ELSE h,
               tail |-> From(p, i + 1)]
        IN  Let(SubSeq(p, 1, i), parts)
  IN  Let(rfind(p, "/"), at)

\* os.path.splitext: the extension starts at the last dot of the last
\* component, leading dots of the component not counted
os_path_splitext(p) ==
  LET at(sepIndex, dotIndex) ==
        IF /\ dotIndex > sepIndex
           /\ \E f \in (sepIndex + 1)..(dotIndex - 1) : Char(p, f) # "."
        THEN [root |-> SubSeq(p, 1, dotIndex - 1), ext |-> From(p, dotIndex)]
        ELSE [root |-> p, ext |-> ""]
  IN  Let2(rfind(p, "/"), rfind(p, "."), at)

\* os.path.join of two components
os_path_join(a, b) ==
  IF startswith(b, "/") THEN b
  ELSE IF a = "" \/ Char(a, Len(a)) = "/" THEN a \o b
       ELSE a \o "/" \o b

(***************************************************************************)
(* The environment: HTTP responses, parsed HTML, decoded images            *)
(***************************************************************************)
codes_ok == 200

Statuses == {200, 204, 304, 404}

\* what BeautifulSoup finds in a page: no <link rel="icon">, one without
\* href, or one with the href given
NoLink == [link |-> FALSE, has_href |-> FALSE, href |-> ""]
NoHref == [link |-> TRUE, has_href |-> FALSE, href |-> ""]
Link(h) == [link |-> TRUE, has_href |-> TRUE, href |-> h]

Hrefs == {"//cdn.com/i.png", "/i.png", "i.png", "http://y.com/f.ico",
          "httpicons/i.png", "img/i.ico?v=2"}

Contents == {NoLink, NoHref} \cup {Link(h) : h \in Hrefs}

\* response.url, the URI the response finally came from
FinalURLs == {"http://x.com/a/b", "https://z.org/b", "http://My-Site.com/"}

ConnectionError(k) ==
  [issued |-> TRUE, raises |-> k, status_code |-> 0, url |-> "", content |-> NoLink]

Response(st, u, c) ==
  [issued |-> TRUE, raises |-> "", status_code |-> st, url |-> u, content |-> c]

NotIssued ==
  [issued |-> FALSE, raises |-> "", status_code |-> 0, url |-> "", content |-> NoLink]

\* requests refuses a URI without an http(s) scheme or without a host
\* before anything is sent
Sendable(uri) ==
  LET ok(parsed) == parsed.scheme \in {"http", "https"} /\ parsed.netloc # ""
  IN  Let(urlparse(uri), ok)

Sent(method, uri) ==
  IF Sendable(uri) THEN <<[method |-> method, uri |-> uri]>> ELSE <<>>

\* the answers to requests.get(uri): an exception, or a response with one
\* of the statuses; an OK response came from one of urls with one of
\* contents
PageResponsesOver(uri, statuses, urls, contents) ==
  IF ~Sendable(uri) THEN {ConnectionError("MissingSchema")}
  ELSE {ConnectionError("ConnectionError")}
         \cup {Response(codes_ok, u, c) : u \in urls, c \in contents}
         \cup {Response(st, uri, Link("/i.png")) : st \in statuses \ {codes_ok}}

PageResponses(uri) == PageResponsesOver(uri, Statuses, FinalURLs, Contents)

HeadResponsesOver(statuses) ==
  {ConnectionError("ConnectionError")}
    \cup {Response(st, "", NoLink) : st \in statuses}

HeadResponses == HeadResponsesOver(Statuses)

(***************************************************************************)
(* get_favicon_uri_from_link, get_favicon_uri, get_filename                *)
(***************************************************************************)
\* get_favicon_uri_from_link joining an absolute path to the page's directory
link_joins_absolute_path(content, uri) ==
  IF content.link /\ content.has_href
  THEN LET absolute(parsed_uri, href) ==
             IF startswith(href, "//")
             THEN parsed_uri.scheme \o ":" \o href
             ELSE IF ~startswith(href, "http")
             THEN parsed_uri.scheme \o "://" \o parsed_uri.netloc
                    \o os_path_split(parsed_uri.path).head \o href
             ELSE href
       IN  Some(Let2(urlparse(uri), content.href, absolute))
  ELSE None

\* get_favicon_uri_from_link taking a protocol-relative href for a path
link_without_protocol_relative(content, uri) ==
  IF content.link /\ content.has_href
  THEN LET absolute(parsed_uri, href) ==
             IF startswith(href, "/")
             THEN parsed_uri.scheme \o "://" \o parsed_uri.netloc \o href
             ELSE IF ~startswith(href, "http")
             THEN parsed_uri.scheme \o "://" \o parsed_uri.netloc \o "/"
                    \o os_path_split(parsed_uri.path).head \o "/" \o href
             ELSE href
       IN  Some(Let2(urlparse(uri), content.href, absolute))
  ELSE None

get_favicon_uri_from_link(content, uri) ==
  IF content.link /\ content.has_href
  THEN LET absolute(parsed_uri, href) ==
             IF startswith(href, "//")
             THEN parsed_uri.scheme \o ":" \o href
             ELSE IF startswith(href, "/")
             THEN parsed_uri.scheme \o "://" \o parsed_uri.netloc \o href
             ELSE IF ~startswith(href, "http")
             THEN parsed_uri.scheme \o "://" \o parsed_uri.netloc \o "/"
                    \o os_path_split(parsed_uri.path).head \o "/" \o href
             ELSE href
       IN  Some(Let2(urlparse(uri), content.href, absolute))
  ELSE None

\* lines 41-46: what the page gives, None when the status is not OK or
\* the link gives nothing
from_page(p) ==
  IF p.status_code = codes_ok
  THEN LET truthy(favicon) ==
             IF favicon # None /\ favicon[1] # "" THEN favicon ELSE None
       IN  Let(get_favicon_uri_from_link(p.content, p.url), truthy)
  ELSE None

\* the HEAD of line 50 is reached when the GET raised nothing and the page
\* gave nothing
asks_head(p) == p.raises = "" /\ from_page(p) = None

\* line 49
standard_location(uri) ==
  LET at(parsed_uri) ==
        parsed_uri.scheme \o "://" \o parsed_uri.netloc \o "/favicon.ico"
  IN  Let(urlparse(uri), at)

\* the status test taking every 2xx status
head_ok_2xx(status_code) == 200 <= status_code /\ status_code < 300

\* line 51: the status test of the HEAD on the standard location
head_ok(status_code) == status_code = codes_ok

\* get_favicon_uri against the answers p (to the GET) and h (to the HEAD):
\* the exception raised if any, the value returned, the requests sent and
\* the answer to the HEAD when one was asked for
get_favicon_uri(uri, p, h) ==
  LET answer(get, linked) ==
        IF p.raises # ""
        THEN [raises |-> p.raises, value |-> None, requests |-> get,
              head |-> NotIssued]
        ELSE IF linked # None
        THEN [raises |-> "", value |-> linked, requests |-> get,
              head |-> NotIssued]
        ELSE Let(standard_location(uri), LAMBDA standard :
               [raises |-> h.raises,
                value |-> IF h.raises = "" /\ head_ok(h.status_code)
                          THEN Some(standard) ELSE None,
                requests |-> get \o <<[method |-> "HEAD", uri |-> standard]>>,
                head |-> h])
  IN  Let2(Sent("GET", uri), from_page(p), answer)

WordChars == Letters \cup CharSet(Digits) \cup {"_"}

WordOrUnderscore(c) == IF c \in WordChars THEN c ELSE "_"

\* re.sub(r'\W', '_', s, flags=re.ASCII)
sub_nonword(str) == Let(str, LAMBDA s : MapFrom(WordOrUnderscore, s, 1))

\* get_filename keeping the host as it is
get_filename_raw_host(uri, fav, png) ==
  urlparse(uri).netloc
    \o (IF png THEN ".png" ELSE os_path_splitext(urlparse(fav).path).ext)

get_filename(uri, fav, png) ==
  sub_nonword(urlparse(uri).netloc)
    \o (IF png THEN ".png" ELSE os_path_splitext(urlparse(fav).path).ext)

(***************************************************************************)
(* get_favicon                                                             *)
(***************************************************************************)
NotImage == [image |-> FALSE, format |-> "", sizes |-> {}, width |-> 0]
IcoImage == [image |-> TRUE, format |-> "ICO", sizes |-> {16, 32}, width |-> 32]
PngImage == [image |-> TRUE, format |-> "PNG", sizes |-> {}, width |-> 64]

Bodies == {NotImage, IcoImage, PngImage}

IconError(k) == [raises |-> k, status_code |-> 0, body |-> NotImage]

IconResponsesOver(uri, statuses, bodies) ==
  IF ~Sendable(uri) THEN {IconError("MissingSchema")}
  ELSE {IconError("ConnectionError")}
         \cup {[raises |-> "", status_code |-> st, body |-> b] :
                 st \in statuses, b \in bodies}

IconResponses(uri) == IconResponsesOver(uri, Statuses, Bodies)

\* Response.raise_for_status raises for the 4xx and 5xx statuses only
raise_for_status(status_code) == 400 <= status_code /\ status_code < 600

\* the guard of lines 67-68: the statuses get_favicon raises HTTPError for
http_error(status_code) ==
  status_code # codes_ok /\ raise_for_status(status_code)

\* the answers whose body get_favicon goes on to decode
decoded(r) == r.raises = "" /\ ~http_error(r.status_code)

\* lines 72-77: the embedded bitmap of an ICO when it has the size asked
\* for, a bicubic resample otherwise
resized(favicon, resize) ==
  IF resize = 0 THEN [width |-> favicon.width, how |-> "original"]
  ELSE IF favicon.format = "ICO" /\ resize \in favicon.sizes
       THEN [width |-> resize, how |-> "ico.getimage"]
       ELSE [width |-> resize, how |-> "resize"]

\* Image.save takes the format from the extension of the file name
SaveExtensions == {".png", ".ico", ".gif", ".jpg", ".bmp"}

Written(files, filename, data) ==
  [f \in DOMAIN files \cup {filename} |-> IF f = filename THEN data ELSE files[f]]

\* get_favicon against the answer r to the GET and the file system's
\* willingness to take the write
get_favicon(uri, filename, resize, r, writable, files) ==
  LET result(k, dec, saved, disk) ==
        [raises |-> k, status_code |-> r.status_code, decoded |-> dec,
         saved |-> saved, filename |-> filename, requests |-> Sent("GET", uri),
         fs |-> disk]
      save(ext, img) ==
        IF ext \notin SaveExtensions THEN result("ValueError", TRUE, FALSE, files)
        ELSE IF ~writable THEN result("OSError", TRUE, FALSE, files)
        ELSE result("", TRUE, TRUE,
                    Written(files, filename,
                            [format |-> ext, width |-> img.width, how |-> img.how]))
  IN  IF r.raises # "" THEN result(r.raises, FALSE, FALSE, files)
      ELSE IF ~decoded(r) THEN result("HTTPError", FALSE, FALSE, files)
      ELSE IF ~r.body.image THEN result("UnidentifiedImageError", TRUE, FALSE, files)
      ELSE Let2(lower(os_path_splitext(filename).ext), resized(r.body, resize), save)

NoIcon == [raises |-> "", status_code |-> 0, decoded |-> FALSE, saved |-> FALSE,
           filename |-> "", requests |-> <<>>, fs |-> <<>>]

Observed(got) ==
  [raises |-> got.raises, status_code |-> got.status_code, decoded |-> got.decoded,
   saved |-> got.saved, filename |-> got.filename]

(***************************************************************************)
(* get_dokuwiki_interwiki_icons: one line of conf/interwiki.local.conf     *)
(***************************************************************************)
images_dir == "lib/images/interwiki"

interwiki_size == 16

NameChars == CharSet(LowerCase) \cup CharSet(Digits) \cup {"-", ".", "_"}

\* re.fullmatch(r'([-0-9.a-z_]+)\s+(.*)', line.strip(), flags=re.ASCII)
interwiki_match(line) ==
  LET groups(s, n, e) == [matched |-> n >= 1 /\ e > n + 1,
                          name |-> SubSeq(s, 1, n),
                          uri |-> From(s, e)]
      spaces(s, n) == Let(FindNot(s, Whitespace, n + 1), LAMBDA e : groups(s, n, e))
      name(s) == Let(FindNot(s, NameChars, 1) - 1, LAMBDA n : spaces(s, n))
  IN  Let(strip(line), name)

interwiki_filename(line) ==
  os_path_join(images_dir, interwiki_match(line).name \o ".png")

\* line 100: the root of the site the entry names
interwiki_uri(line) ==
  LET root(parsed) == parsed.scheme \o "://" \o parsed.netloc \o "/"
  IN  Let(urlparse(interwiki_match(line).uri), root)

\* the test of line 97 without its 'and not force'
skipped_even_if_forced(line, force, files) ==
  interwiki_filename(line) \in DOMAIN files

\* line 97: an entry whose icon is on disk is left alone unless forced
skipped(line, force, files) ==
  interwiki_filename(line) \in DOMAIN files /\ ~force

Range(q) == {q[i] : i \in 1..Len(q)}

Info(m) == [level |-> "INFO", msg |-> m]
Error(m) == [level |-> "ERROR", msg |-> m]

\* the classes the except clause of line 106 catches
ExceptionClasses == {"ConnectionError", "MissingSchema", "HTTPError",
                     "UnidentifiedImageError", "ValueError", "OSError"}

\* an except clause for requests.RequestException alone
caught_requests_only(k) == k \in {"ConnectionError", "MissingSchema", "HTTPError"}

caught(k) == k \in ExceptionClasses

\* the body of the loop for one line, against the answers p, h, r of the
\* web and the file system's willingness to take the write
interwiki_entry(line, force, files, p, h, r, writable) ==
  LET quiet(lg) == [raises |-> "", requests |-> <<>>, log |-> lg, fs |-> files,
                    page |-> NotIssued, head |-> NotIssued,
                    favicon_uri |-> None, icon |-> Observed(NoIcon)]
      fetched(found, got) ==
        [raises |-> got.raises,
         requests |-> found.requests \o got.requests,
         log |-> IF got.raises # "" THEN <<Error(got.raises)>>
                 ELSE <<Info("icon saved")>>,
         fs |-> got.fs, page |-> p, head |-> found.head,
         favicon_uri |-> found.value, icon |-> Observed(got)]
      resolved(found) ==
        IF found.raises # "" \/ found.value = None
        THEN [raises |-> found.raises, requests |-> found.requests,
              log |-> IF found.raises # "" THEN <<Error(found.raises)>>
                      ELSE <<Error("cannot find favicon")>>,
              fs |-> files, page |-> p, head |-> found.head,
              favicon_uri |-> None, icon |-> Observed(NoIcon)]
        ELSE Let(get_favicon(found.value[1], interwiki_filename(line),
                             interwiki_size, r, writable, files),
                 LAMBDA got : fetched(found, got))
  IN  IF ~interwiki_match(line).matched THEN quiet(<<>>)
      ELSE IF skipped(line, force, files)
      THEN quiet(<<Info("icon exists already - skip")>>)
      ELSE Let(get_favicon_uri(interwiki_uri(line), p, h), resolved)

(***************************************************************************)
(* Inputs                                                                  *)
(***************************************************************************)
MaxLines == 2

PageURIs == {"http://x.com/a/b", "x.com", "httpbin.org", "https://z.org/",
             "ftp://x.com", "", "http://My-Site.com/"}

Lines == {"wp  http://x.com/w/\n", "# comment\n", "local\tintranet/wiki\n"}

\* the answers the batch run is checked against
BatchStatuses == {200, 404}

BatchPages(uri) ==
  PageResponsesOver(uri, BatchStatuses, {uri}, {NoLink, Link("/i.png")})

BatchHeads == HeadResponsesOver(BatchStatuses)

BatchIcons(uri) == IconResponsesOver(uri, BatchStatuses, {NotImage, IcoImage})

\* the configuration files: every sequence of at most MaxLines lines
Confs == UNION {[1..n -> Lines] : n \in 0..MaxLines}

OldIcon == [format |-> ".png", width |-> 16, how |-> "on disk"]

EmptyFS == [f \in {} |-> OldIcon]

Disks == {EmptyFS, [f \in {"lib/images/interwiki/wp.png"} |-> OldIcon]}

SingleArgs ==
  [uri : PageURIs, print : BOOLEAN, dir : {"", "icons"}, filename : {"", "out.bin"},
   resize : {0, 16}, png : BOOLEAN, dokuwiki : {FALSE}, force : {FALSE}]

BatchArgs ==
  [uri : {""}, print : {FALSE}, dir : {""}, filename : {""}, resize : {0},
   png : {FALSE}, dokuwiki : {TRUE}, force : BOOLEAN]

\* the answers the environment may give: to the HEAD when it is asked for,
\* to the GET of the icon when a favicon URI was found, of the file system
\* when the image was decoded
HeadAnswers(p, heads) == IF asks_head(p) THEN heads ELSE {NotIssued}

IconAnswers(found, icons(_)) ==
  IF found.raises = "" /\ found.value # None THEN icons(found.value[1])
  ELSE {IconError("not asked")}

WriteAnswers(r) == IF decoded(r) /\ r.body.image THEN BOOLEAN ELSE {TRUE}

(***************************************************************************)
(* The program                                                             *)
(***************************************************************************)
\* the except clauses of lines 151-158
main_except(k) ==
  IF k = "" THEN <<>>
  ELSE IF k = "ConnectionError" THEN <<Error("cannot connect")>>
  ELSE IF k \in {"HTTPError", "MissingSchema"} THEN <<Error("requests error")>>
  ELSE <<Error("error")>>

\* line 136: the test that decides whether 'http://' is prefixed
needs_prefix(uri) == ~startswith(uri, "http")

normalized(uri) == IF needs_prefix(uri) THEN "http://" \o uri ELSE uri

InitSingle ==
  /\ pc = "main"
  /\ args \in SingleArgs /\ conf = <<>> /\ fs = EmptyFS
  /\ lineno = 0
  /\ processed = <<>>
  /\ requests = <<>>
  /\ log = <<>>
  /\ out = <<>>
  /\ page = NotIssued
  /\ head = NotIssued
  /\ favicon_uri = None
  /\ icon = Observed(NoIcon)

InitBatch ==
  /\ pc = "main"
  /\ args \in BatchArgs /\ conf \in Confs /\ fs \in Disks
  /\ lineno = 0
  /\ processed = <<>>
  /\ requests = <<>>
  /\ log = <<>>
  /\ out = <<>>
  /\ page = NotIssued
  /\ head = NotIssued
  /\ favicon_uri = None
  /\ icon = Observed(NoIcon)

Init == InitSingle \/ InitBatch

\* lines 134-137
Normalize ==
  /\ pc = "main" /\ ~args.dokuwiki
  /\ IF args.uri = ""
     THEN /\ log' = <<Error("error")>>
          /\ pc' = "done"
          /\ args' = args
     ELSE /\ args' = [args EXCEPT !.uri = normalized(args.uri)]
          /\ pc' = "resolve"
          /\ log' = <<>>
  /\ requests' = <<>>
  /\ UNCHANGED <<conf, lineno, processed, fs, out, page, head, favicon_uri, icon>>

\* lines 139-141
Resolve ==
  /\ pc = "resolve"
  /\ \E p \in PageResponses(args.uri) : \E h \in HeadAnswers(p, HeadResponses) :
       \E found \in {get_favicon_uri(args.uri, p, h)} :
           /\ page' = p
           /\ head' = found.head
           /\ favicon_uri' = found.value
           /\ requests' = found.requests
           /\ log' = IF found.raises # "" THEN main_except(found.raises)
                     ELSE IF found.value = None THEN <<Error("error")>>
                     ELSE <<>>
           /\ pc' = IF found.raises = "" /\ found.value # None THEN "output"
                    ELSE "done"
  /\ UNCHANGED <<args, conf, lineno, processed, fs, out, icon>>

\* lines 143-144
PrintURI ==
  /\ pc = "output" /\ args.print
  /\ out' = Append(out, favicon_uri[1])
  /\ pc' = "done"
  /\ requests' = <<>>
  /\ log' = <<>>
  /\ UNCHANGED <<args, conf, lineno, processed, fs, page, head, favicon_uri, icon>>

\* lines 146-149
Save ==
  /\ pc = "output" /\ ~args.print
  /\ LET name == IF args.filename = ""
                 THEN get_filename(args.uri, favicon_uri[1], args.png)
                 ELSE args.filename
     IN  \E filename \in {os_path_join(args.dir, name)} :
         \E r \in IconResponses(favicon_uri[1]) : \E writable \in WriteAnswers(r) :
         \E got \in {get_favicon(favicon_uri[1], filename, args.resize, r, writable, fs)} :
               /\ args' = [args EXCEPT !.filename = filename]
               /\ fs' = got.fs
               /\ icon' = Observed(got)
               /\ requests' = got.requests
               /\ log' = main_except(got.raises)
               /\ pc' = "done"
  /\ UNCHANGED <<conf, lineno, processed, out, page, head, favicon_uri>>

\* lines 131-132, 84-88
OpenConf ==
  /\ pc = "main" /\ args.dokuwiki
  /\ pc' = "batch"
  /\ lineno' = 1
  /\ requests' = <<>>
  /\ log' = <<>>
  /\ UNCHANGED <<args, conf, processed, fs, out, page, head, favicon_uri, icon>>

\* lines 90-109, one iteration
BatchLine ==
  /\ pc = "batch" /\ lineno <= Len(conf)
  /\ \E line \in {conf[lineno]} : \E uri \in {interwiki_uri(line)} :
     \E p \in IF interwiki_match(line).matched /\ ~skipped(line, args.force, fs)
              THEN BatchPages(uri) ELSE {NotIssued} :
     \E h \in HeadAnswers(p, BatchHeads) :
     \E r \in IconAnswers(get_favicon_uri(uri, p, h), BatchIcons) :
     \E writable \in WriteAnswers(r) :
     \E entry \in {interwiki_entry(line, args.force, fs, p, h, r, writable)} :
         /\ fs' = entry.fs
         /\ requests' = entry.requests
         /\ log' = entry.log
         /\ page' = entry.page
         /\ head' = entry.head
         /\ favicon_uri' = entry.favicon_uri
         /\ icon' = entry.icon
         /\ processed' = Append(processed,
                                [lineno |-> lineno,
                                 failed |-> \E m \in Range(entry.log) : m.level = "ERROR"])
         /\ IF entry.raises = "" \/ caught(entry.raises)
            THEN pc' = pc /\ lineno' = lineno + 1
            ELSE pc' = "done" /\ lineno' = lineno
  /\ UNCHANGED <<args, conf, out>>

\* line 90: the file is exhausted
BatchEnd ==
  /\ pc = "batch" /\ lineno > Len(conf)
  /\ pc' = "done"
  /\ requests' = <<>>
  /\ log' = <<>>
  /\ UNCHANGED <<args, conf, lineno, processed, fs, out, page, head, favicon_uri, icon>>

NextSingle == Normalize \/ Resolve \/ PrintURI \/ Save

NextBatch == OpenConf \/ BatchLine \/ BatchEnd

Next == NextSingle \/ NextBatch

\* the whole program, a single-URI run, a batch run
Spec == Init /\ [][Next]_vars

SingleSpec == InitSingle /\ [][NextSingle]_vars

BatchSpec == InitBatch /\ [][NextBatch]_vars

\* the program is sequential: a step that can be taken is taken
FairBatchSpec == BatchSpec /\ WF_vars(NextBatch)

(***************************************************************************)
(* Properties                                                              *)
(***************************************************************************)
\* the resolver read the icon link of an OK page
LinkRead ==
  page.issued /\ page.raises = "" /\ page.status_code = codes_ok
    /\ page.content.link /\ page.content.has_href

Href == page.content.href

\* scheme and host of the URI the response finally came from
FinalOrigin == urlparse(page.url).scheme \o "://" \o urlparse(page.url).netloc

\* the directory of a path: what stands before its last slash
DirOf(path) == SubSeq(path, 1, rfind(path, "/") - 1)

HasScheme(u) == urlparse(u).scheme # ""

IsAbsoluteURI(u) == urlparse(u).scheme # "" /\ urlparse(u).netloc # ""

Is2xx(status_code) == status_code \in 200..299

\* C1: a relative href (no leading '/', not an absolute URI) resolves to
\* scheme://host + directory of the final request path + '/' + href
C1_RelativeHref ==
  LinkRead /\ ~startswith(Href, "/") /\ ~HasScheme(Href)
    => favicon_uri = Some(FinalOrigin \o DirOf(urlparse(page.url).path) \o "/" \o Href)

\* C2: the resolver returns none or an absolute URI, never a relative or
\* scheme-less string
C2_AbsoluteOrNone ==
  favicon_uri # None => IsAbsoluteURI(favicon_uri[1])

ResolveStep == pc = "resolve" /\ pc' # "resolve"

StandardLocation(uri) ==
  urlparse(uri).scheme \o "://" \o urlparse(uri).netloc \o "/favicon.ico"

HeadFallback(pageFailed(_), headOk(_)) ==
  ResolveStep /\ page'.raises = ""
    /\ (~(page'.content.link /\ page'.content.has_href) \/ pageFailed(page'.status_code))
  => /\ requests' = <<[method |-> "GET", uri |-> args.uri],
                      [method |-> "HEAD", uri |-> StandardLocation(args.uri)]>>
     /\ head'.issued
     /\ head'.raises = ""
          => favicon_uri' = IF headOk(head'.status_code)
                            THEN Some(StandardLocation(args.uri)) ELSE None

Not2xx(status_code) == ~Is2xx(status_code)

NotOK(status_code) == status_code # 200

IsOK(status_code) == status_code = 200

C4_Non2xxIsError ==
  icon.filename # "" /\ icon.raises \notin {"ConnectionError", "MissingSchema"}
    /\ ~Is2xx(icon.status_code)
  => icon.raises = "HTTPError" /\ ~icon.decoded /\ ~icon.saved /\ fs = EmptyFS

\* C5: the page URI is prefixed with 'http://' exactly when it has no scheme
C5_PrefixIffNoScheme ==
  [][pc = "main" /\ pc' = "resolve"
       => args'.uri = IF HasScheme(args.uri) THEN args.uri
                      ELSE "http://" \o args.uri]_vars

\* the file of the entry on the line about to be read, when the line is an
\* entry
EntryFile == "lib/images/interwiki/" \o interwiki_match(conf[lineno]).name \o ".png"

OnExistingEntry ==
  /\ pc = "batch" /\ lineno <= Len(conf) /\ lineno' = lineno + 1
  /\ interwiki_match(conf[lineno]).matched
  /\ EntryFile \in DOMAIN fs

SkipMessage == <<Info("icon exists already - skip")>>

\* C6: an entry whose {name}.png exists is skipped unless force is set:
\* unforced, no request is sent and the file system is left as it is;
\* forced, the entry is resolved and fetched as if the file were not there
C6_SkipUnlessForced ==
  [][OnExistingEntry
       => IF ~args.force
          THEN requests' = <<>> /\ fs' = fs /\ ~page'.issued /\ log' = SkipMessage
          ELSE /\ log' # SkipMessage
               /\ page'.issued
               /\ Len(requests') >= 1 => requests'[1].method = "GET"
               /\ IF icon'.saved THEN fs'[EntryFile].how # "on disk"
                  ELSE fs' = fs]_vars

C6_Witness ==
  /\ pc = "batch" /\ lineno = 2 /\ ~args.force
  /\ conf[1] = "wp  http://x.com/w/\n"
  /\ "lib/images/interwiki/wp.png" \in DOMAIN fs
  /\ log = SkipMessage /\ requests = <<>>

\* C7: a failure on one entry never aborts the batch: every line of the
\* file is processed, in file order, and the batch ends after the last one
C7_BatchRunsToTheEnd ==
  <>(/\ pc = "done"
     /\ Len(processed) = Len(conf)
     /\ \A i \in 1..Len(conf) : processed[i].lineno = i)

C7_Witness ==
  /\ pc = "done" /\ Len(processed) = 2
  /\ processed[1].failed
  /\ processed[2].lineno = 2

\* C8: an absolute-path href (a single leading '/') resolves to
\* scheme://host + href, whatever the path of the page
C8_AbsolutePathHref ==
  LinkRead /\ startswith(Href, "/") /\ ~startswith(Href, "//")
    => favicon_uri = Some(FinalOrigin \o Href)

C8_Witness ==
  /\ LinkRead /\ Href = "/i.png" /\ page.url = "http://x.com/a/b"
  /\ favicon_uri = Some("http://x.com/i.png")

\* C9: a protocol-relative href ('//host/...') resolves to the request's
\* scheme + ':' + href, the page's host playing no part
C9_ProtocolRelativeHref ==
  LinkRead /\ startswith(Href, "//")
    => favicon_uri = Some(urlparse(page.url).scheme \o ":" \o Href)

C9_Witness ==
  /\ LinkRead /\ Href = "//cdn.com/i.png" /\ page.url = "https://z.org/b"
  /\ favicon_uri = Some("https://cdn.com/i.png")

\* the extension of a path: from the last dot of its last component on,
\* when something other than dots stands before that dot
ExtensionOf(path) ==
  LET base == From(path, rfind(path, "/") + 1)
      dot == rfind(base, ".")
  IN  IF dot > 1 /\ \E i \in 1..(dot - 1) : Char(base, i) # "."
      THEN From(base, dot) ELSE ""

IsSanitized(name, host) ==
  /\ Len(name) = Len(host)
  /\ \A i \in 1..Len(host) :
       Char(name, i) = IF Char(host, i) \in WordChars THEN Char(host, i) ELSE "_"

\* C10: the output filename is the page URI's host with every character
\* outside [A-Za-z0-9_] replaced by '_', followed by '.png' when PNG
\* conversion is asked for and by the extension of the favicon URI's path
\* otherwise
C10_Filename ==
  [][pc = "output" /\ pc' = "done" /\ ~args.print /\ args.filename = "" /\ args.dir = ""
       => LET host == urlparse(args.uri).netloc
              ext == IF args.png THEN ".png"
                     ELSE ExtensionOf(urlparse(favicon_uri[1]).path)
          IN  /\ IsSanitized(SubSeq(args'.filename, 1, Len(host)), host)
              /\ From(args'.filename, Len(host) + 1) = ext
              /\ icon'.filename = args'.filename]_vars

C10_Witness ==
  /\ pc = "done" /\ args.uri = "http://My-Site.com/" /\ ~args.png
  /\ favicon_uri = Some("http://My-Site.com/favicon.ico")
  /\ icon.filename = "My_Site_com.ico"
====
